---- MODULE Spec2Model ----
(***************************************************************************)
(* Repeated Balls-into-Bins (src/src/rbb_stacs_2023.cc).                   *)
(*                                                                         *)
(* A vector<size_t> is a function from 0..(size-1) to naturals, so that    *)
(* bin indices are the ones the code uses.  Vector objects live in `store` *)
(* under the name of the object that holds them, which lets value (copy)   *)
(* semantics be told apart from reference semantics:                       *)
(*   "arg"    the caller's vector handed to the constructor,               *)
(*   "member" the engine's load_vector_,                                   *)
(*   "ret"    the caller's vector received from getLoadVector.             *)
(* Loads are modelled as mathematical integers: a size_t entry can only    *)
(* wrap upwards when the total number of balls reaches 2^64, which is      *)
(* outside the inputs explored here; a decrement of a zero entry shows as  *)
(* a negative entry.                                                       *)
(***************************************************************************)
EXTENDS Integers, FiniteSets, Sequences, TLC

VARIABLES
  store,                    \* object name -> vector
  max_load_,                \* RepeatedBallsIntoBins::max_load_
  num_empty_bins_,          \* RepeatedBallsIntoBins::num_empty_bins_
  bin_uar_,                 \* RepeatedBallsIntoBins::bin_uar_, its [a, b] range
  pc,                       \* position inside nextRound: "idle", "phase1", "phase2"
  n,                        \* nextRound local
  balls_to_allocate,        \* nextRound local
  i,                        \* phase-1 loop index
  j,                        \* phase-2 loop index
  generator,                \* the random source: draws made so far (or the draws themselves)
  ret_max,                  \* caller's copy of the last getMaxLoad() result
  ret_empty,                \* caller's copy of the last getNumEmptyBins() result
  run_pc,                   \* position inside run_experiments_for_n_and_m
  num_bins, num_balls, num_rounds, num_repetitions,   \* its parameters
  rep, round,               \* its loop indices
  aggregate_max_loads,
  aggregate_num_empty_bins,
  load0,                    \* history: the vector the engine was constructed from
  round_start,              \* history: load_vector_ when the round in progress began
  rounds,                   \* history: completed nextRound calls
  samples,                  \* history: statistics samples added to the sums
  post_max_sum,             \* history: sum of max_load_ at each round completion
  post_empty_sum,           \* history: sum of num_empty_bins_ at each completion
  writes                    \* history: caller writes to its own vectors

engine_vars == <<store, max_load_, num_empty_bins_, bin_uar_>>
local_vars  == <<pc, n, balls_to_allocate, i, j>>
caller_vars == <<ret_max, ret_empty>>
run_vars    == <<run_pc, num_bins, num_balls, num_rounds, num_repetitions, rep, round,
                 aggregate_max_loads, aggregate_num_empty_bins>>
hist_vars   == <<load0, round_start, rounds, samples, post_max_sum,
                 post_empty_sum, writes>>
vars == <<engine_vars, local_vars, generator, caller_vars, run_vars, hist_vars>>

(***************************************************************************)
(* Bounds of the exploration.                                              *)
(***************************************************************************)
MaxBins == 3
MaxLoad == 2
MaxRounds == 2
FrameMaxBins == 2
FrameMaxLoad == 1
FrameMaxRounds == 1
MaxWrites == 1
GenMaxBins == 4
GenMaxBalls == 13
RunMaxBins == 2
RunMaxBalls == 3
RunMaxRounds == 2
RunMaxReps == 2
DetMaxBins == 2
DetMaxLoad == 2
DetMaxRounds == 2

(***************************************************************************)
(* Vectors.                                                                *)
(***************************************************************************)
Size(v) == Cardinality(DOMAIN v)

EmptyVector == [k \in {} |-> 0]

BoolToInt(b) == IF b THEN 1 ELSE 0

StdMax(a, b) == IF a < b THEN b ELSE a

\* Reference notions the statistics are compared with (not code).
RECURSIVE SumUpTo(_, _)
SumUpTo(v, k) == IF k = 0 THEN 0 ELSE v[k - 1] + SumUpTo(v, k - 1)

Sum(v) == SumUpTo(v, Size(v))

IsMaxOf(x, v) == /\ \A k \in DOMAIN v : v[k] <= x
                 /\ \/ \E k \in DOMAIN v : v[k] = x
                    \/ (DOMAIN v = {} /\ x = 0)

CountZero(v) == Cardinality({k \in DOMAIN v : v[k] = 0})

CountNonZero(v) == Cardinality({k \in DOMAIN v : v[k] # 0})

(***************************************************************************)
(* The engine's objects.                                                   *)
(***************************************************************************)
ArgAddr == "arg"

\* load_vector_ is a member held by value: it has storage of its own.
LoadVectorAddr_ref == "arg"
LoadVectorAddr == "member"

\* getLoadVector returns by value: the caller receives a new object.
GetLoadVectorAddr_ref == "member"
GetLoadVectorAddr == "ret"

load_vector_ == store[LoadVectorAddr]

\* Constructor, lines 23-26: one scan over load_vector_, from max_load_ = 0
\* and num_empty_bins_ = 0 (k entries still to scan, from index Size(v) - k).
RECURSIVE CtorMaxLoad(_, _, _)
CtorMaxLoad(v, k, acc) ==
  IF k = 0 THEN acc
  ELSE CtorMaxLoad(v, k - 1, StdMax(acc, v[Size(v) - k]))

CtorNumEmptyBins_skip(v, k, acc) == acc
RECURSIVE CtorNumEmptyBins(_, _, _)
CtorNumEmptyBins(v, k, acc) ==
  IF k = 0 THEN acc
  ELSE CtorNumEmptyBins(v, k - 1, acc + BoolToInt(v[Size(v) - k] = 0))

\* bin_uar_(0, load_vector.size() - 1)
CtorBinUar_size(v) == [a |-> 0, b |-> Size(v)]
CtorBinUar(v) == [a |-> 0, b |-> Size(v) - 1]

\* The state of the three objects right after RepeatedBallsIntoBins(v).
CtorStore(old, v) ==
  [[old EXCEPT ![ArgAddr] = v] EXCEPT ![LoadVectorAddr] = v]

Construct(v) ==
  /\ store' = CtorStore(store, v)
  /\ max_load_' = CtorMaxLoad(store'[LoadVectorAddr], Size(v), 0)
  /\ num_empty_bins_' = CtorNumEmptyBins(store'[LoadVectorAddr], Size(v), 0)
  /\ bin_uar_' = CtorBinUar(v)


(***************************************************************************)
(* nextRound, lines 31-52.                                                 *)
(***************************************************************************)
\* line 34: size_t balls_to_allocate = n - num_empty_bins_;
BallsToAllocate_all(size, empty) == size
BallsToAllocate_empty(size, empty) == empty
BallsToAllocate(size, empty) == size - empty

\* lines 38-40: if (load_vector_[i] > 0) --load_vector_[i];
Phase1Decrement_unguarded(x) == x - 1
Phase1Decrement_above1(x) == IF x > 1 THEN x - 1 ELSE x
Phase1Decrement(x) == IF x > 0 THEN x - 1 ELSE x

\* line 41: max_load_ = std::max(max_load_, load_vector_[i]);
Phase1MaxLoad_keep(cur, x) == cur
Phase1MaxLoad_before(cur, x) == StdMax(cur, x + 1)
Phase1MaxLoad(cur, x) == StdMax(cur, x)

\* line 42: num_empty_bins_ += (load_vector_[i] == 0);
Phase1NumEmptyBins_keep(cur, x) == cur
Phase1NumEmptyBins(cur, x) == cur + BoolToInt(x = 0)

\* line 48: ++load_vector_[i];
Phase2Increment(x) == x + 1

\* line 49: max_load_ = std::max(max_load_, load_vector_[i]);
Phase2MaxLoad_keep(cur, x) == cur
Phase2MaxLoad_assign(cur, x) == x
Phase2MaxLoad(cur, x) == StdMax(cur, x)

\* line 50: num_empty_bins_ -= (load_vector_[i] == 1);
Phase2NumEmptyBins_keep(cur, x) == cur
Phase2NumEmptyBins_always(cur, x) == cur - 1
Phase2NumEmptyBins(cur, x) == cur - BoolToInt(x = 1)

\* line 47: size_t i = bin_uar_(generator); the values the distribution can
\* return, each of which advances the stream.
BinUarValues == bin_uar_.a .. bin_uar_.b

\* lines 30-31 and 47: nextRound takes the random source as a template
\* parameter T& and draws from it once per ball.  The std::mt19937_64 of the
\* experiments is known by its position in its stream; a recording source
\* injected by a caller (run_pc = "replay") by the bins it has handed out.
GeneratorAdvance(g, b) ==
  IF run_pc = "replay" THEN Append(g, b) ELSE g + 1

\* lines 33-36: entry of nextRound.
NextRoundEnter ==
  /\ pc = "idle"
  /\ n' = Size(load_vector_)
  /\ balls_to_allocate' = BallsToAllocate(Size(load_vector_), num_empty_bins_)
  /\ max_load_' = 0
  /\ num_empty_bins_' = 0
  /\ i' = 0
  /\ pc' = "phase1"
  /\ round_start' = load_vector_
  /\ UNCHANGED <<store, bin_uar_, j, generator, caller_vars>>
  /\ UNCHANGED <<load0, rounds, samples, post_max_sum, post_empty_sum, writes>>

\* lines 37-43: one iteration of the phase-1 loop.
Phase1Step ==
  /\ pc = "phase1"
  /\ i < n
  /\ LET x == Phase1Decrement(load_vector_[i])
     IN /\ store' = [store EXCEPT ![LoadVectorAddr][i] = x]
        /\ max_load_' = Phase1MaxLoad(max_load_, x)
        /\ num_empty_bins_' = Phase1NumEmptyBins(num_empty_bins_, x)
  /\ i' = i + 1
  /\ UNCHANGED <<bin_uar_, pc, n, balls_to_allocate, j, generator>>
  /\ UNCHANGED <<caller_vars, run_vars, hist_vars>>

\* line 37 (i == n) and line 46 (j = 0): phase 1 is over.
Phase1Done ==
  /\ pc = "phase1"
  /\ ~(i < n)
  /\ j' = 0
  /\ pc' = "phase2"
  /\ UNCHANGED <<engine_vars, n, balls_to_allocate, i, generator>>
  /\ UNCHANGED <<caller_vars, run_vars, hist_vars>>

\* lines 46-51: one iteration of the phase-2 loop, for each bin the
\* distribution can return.
Phase2Step ==
  /\ pc = "phase2"
  /\ j < balls_to_allocate
  /\ \E b \in BinUarValues :
       LET x == Phase2Increment(load_vector_[b])
       IN /\ store' = [store EXCEPT ![LoadVectorAddr][b] = x]
          /\ max_load_' = Phase2MaxLoad(max_load_, x)
          /\ num_empty_bins_' = Phase2NumEmptyBins(num_empty_bins_, x)
          /\ generator' = GeneratorAdvance(generator, b)
  /\ j' = j + 1
  /\ UNCHANGED <<bin_uar_, pc, n, balls_to_allocate, i>>
  /\ UNCHANGED <<caller_vars, run_vars>>
  /\ UNCHANGED hist_vars

\* line 46 (j == balls_to_allocate) and line 52: nextRound returns.
Phase2Done ==
  /\ pc = "phase2"
  /\ ~(j < balls_to_allocate)
  /\ pc' = "idle"
  /\ rounds' = rounds + 1
  /\ post_max_sum' = post_max_sum + max_load_
  /\ post_empty_sum' = post_empty_sum + num_empty_bins_
  /\ UNCHANGED <<engine_vars, n, balls_to_allocate, i, j, generator>>
  /\ UNCHANGED <<caller_vars, run_vars>>
  /\ round_start' = load_vector_
  /\ UNCHANGED <<load0, samples, writes>>

(***************************************************************************)
(* Accessors, lines 55-67.                                                 *)
(***************************************************************************)
getMaxLoad == max_load_

getNumEmptyBins == num_empty_bins_

getLoadVector == load_vector_

(***************************************************************************)
(* An engine built from an arbitrary load vector and driven by a caller    *)
(* that calls nextRound any number of times.                               *)
(***************************************************************************)
\* The load vector [0,2,5] of three bins.
ScenarioD == [k \in 0 .. 2 |-> IF k = 0 THEN 0 ELSE IF k = 1 THEN 2 ELSE 5]

LoadVectors ==
  UNION {[0 .. (k - 1) -> 0 .. MaxLoad] : k \in 1 .. MaxBins} \cup {ScenarioD}

NoRun ==
  /\ run_pc = "none"
  /\ num_bins = 0 /\ num_balls = 0 /\ num_rounds = 0 /\ num_repetitions = 0
  /\ rep = 0 /\ round = 0
  /\ aggregate_max_loads = 0 /\ aggregate_num_empty_bins = 0

InitLocals ==
  /\ pc = "idle" /\ n = 0 /\ balls_to_allocate = 0 /\ i = 0 /\ j = 0

InitHistory(v) ==
  /\ load0 = v /\ round_start = v /\ rounds = 0
  /\ samples = 0 /\ post_max_sum = 0 /\ post_empty_sum = 0 /\ writes = 0

NoObjects == [a \in {"arg", "member", "ret"} |-> EmptyVector]

Init ==
  \E v \in LoadVectors :
    /\ store = CtorStore(NoObjects, v)
    /\ max_load_ = CtorMaxLoad(store[LoadVectorAddr], Size(v), 0)
    /\ num_empty_bins_ = CtorNumEmptyBins(store[LoadVectorAddr], Size(v), 0)
    /\ bin_uar_ = CtorBinUar(v)
    /\ InitLocals
    /\ generator = 0
    /\ ret_max = 0 /\ ret_empty = 0
    /\ NoRun
    /\ InitHistory(v)

\* rbb.nextRound(generator) called from outside the experiment driver.
CallNextRound ==
  /\ run_pc = "none"
  /\ rounds < MaxRounds
  /\ NextRoundEnter
  /\ UNCHANGED run_vars

Next ==
  \/ CallNextRound
  \/ Phase1Step
  \/ Phase1Done
  \/ Phase2Step
  \/ Phase2Done

Spec == Init /\ [][Next]_vars


(***************************************************************************)
(* The same engine with a caller that also reads the accessors, keeps what *)
(* they return, and writes to the vectors it owns between calls.           *)
(***************************************************************************)
\* size_t getMaxLoad() const
CallGetMaxLoad ==
  /\ run_pc = "none"
  /\ pc = "idle"
  /\ ret_max' = getMaxLoad
  /\ UNCHANGED <<engine_vars, local_vars, generator, ret_empty, run_vars, hist_vars>>

\* size_t getNumEmptyBins() const
CallGetNumEmptyBins ==
  /\ run_pc = "none"
  /\ pc = "idle"
  /\ ret_empty' = getNumEmptyBins
  /\ UNCHANGED <<engine_vars, local_vars, generator, ret_max, run_vars, hist_vars>>

\* std::vector<size_t> getLoadVector() const: the caller's object receives
\* the value.
CallGetLoadVector ==
  /\ run_pc = "none"
  /\ pc = "idle"
  /\ store' = [store EXCEPT ![GetLoadVectorAddr] = getLoadVector]
  /\ UNCHANGED <<max_load_, num_empty_bins_, bin_uar_, local_vars, generator>>
  /\ UNCHANGED <<caller_vars, run_vars, hist_vars>>

\* The objects the caller can reach: the vector it passed to the
\* constructor and, once getLoadVector has been called, what it returned.
CallerObjects ==
  {ArgAddr} \cup (IF store["ret"] # EmptyVector THEN {GetLoadVectorAddr} ELSE {})

\* The caller assigns a new value to an entry of one of its vectors.
CallerWrite ==
  /\ run_pc = "none"
  /\ pc = "idle"
  /\ writes < MaxWrites
  /\ \E a \in CallerObjects : \E k \in DOMAIN store[a] : \E x \in 0 .. FrameMaxLoad :
       /\ x # store[a][k]
       /\ store' = [store EXCEPT ![a][k] = x]
  /\ writes' = writes + 1
  /\ UNCHANGED <<max_load_, num_empty_bins_, bin_uar_, local_vars, generator>>
  /\ UNCHANGED <<caller_vars, run_vars>>
  /\ UNCHANGED <<load0, round_start, rounds, samples, post_max_sum, post_empty_sum>>

InitFrame ==
  /\ Init
  /\ Size(load0) <= FrameMaxBins
  /\ \A k \in DOMAIN load0 : load0[k] <= FrameMaxLoad

CallNextRoundFrame ==
  /\ run_pc = "none"
  /\ rounds < FrameMaxRounds
  /\ NextRoundEnter
  /\ UNCHANGED run_vars

NextFrame ==
  \/ CallNextRoundFrame
  \/ Phase1Step
  \/ Phase1Done
  \/ Phase2Step
  \/ Phase2Done
  \/ CallGetMaxLoad
  \/ CallGetNumEmptyBins
  \/ CallGetLoadVector
  \/ CallerWrite

SpecFrame == InitFrame /\ [][NextFrame]_vars


(***************************************************************************)
(* The same engine driven by a caller that injects a recording random      *)
(* source, as a test with a mock generator does.                           *)
(***************************************************************************)
InitDet ==
  \E v \in LoadVectors :
    /\ Size(v) <= DetMaxBins
    /\ \A k \in DOMAIN v : v[k] <= DetMaxLoad
    /\ store = CtorStore(NoObjects, v)
    /\ max_load_ = CtorMaxLoad(store[LoadVectorAddr], Size(v), 0)
    /\ num_empty_bins_ = CtorNumEmptyBins(store[LoadVectorAddr], Size(v), 0)
    /\ bin_uar_ = CtorBinUar(v)
    /\ InitLocals
    /\ generator = <<>>
    /\ ret_max = 0 /\ ret_empty = 0
    /\ run_pc = "replay"
    /\ num_bins = 0 /\ num_balls = 0 /\ num_rounds = 0 /\ num_repetitions = 0
    /\ rep = 0 /\ round = 0
    /\ aggregate_max_loads = 0 /\ aggregate_num_empty_bins = 0
    /\ InitHistory(v)

CallNextRoundDet ==
  /\ run_pc = "replay"
  /\ rounds < DetMaxRounds
  /\ NextRoundEnter
  /\ UNCHANGED run_vars

NextDet ==
  \/ CallNextRoundDet
  \/ Phase1Step
  \/ Phase1Done
  \/ Phase2Step
  \/ Phase2Done

SpecDet == InitDet /\ [][NextDet]_vars

(***************************************************************************)
(* generate_uniform_vector, lines 85-92.                                   *)
(***************************************************************************)
\* line 86: std::vector<size_t> load_vector(num_bins, num_balls/num_bins);
GenFill(bins, balls) == [k \in 0 .. (bins - 1) |-> balls \div bins]

\* line 87: size_t rem = num_balls % num_bins;
GenRem_quotient(bins, balls) == balls \div bins
GenRem(bins, balls) == balls % bins

\* lines 88-90: for (size_t i = 0; i < rem; ++i) ++load_vector[i];
RECURSIVE GenLoop(_, _, _)
GenLoop(v, k, rem) ==
  IF k < rem THEN GenLoop([v EXCEPT ![k] = @ + 1], k + 1, rem) ELSE v

generate_uniform_vector(bins, balls) ==
  GenLoop(GenFill(bins, balls), 0, GenRem(bins, balls))

InitCommon ==
  /\ store = NoObjects
  /\ max_load_ = 0 /\ num_empty_bins_ = 0
  /\ bin_uar_ = CtorBinUar(EmptyVector)
  /\ InitLocals
  /\ generator = 0
  /\ ret_max = 0 /\ ret_empty = 0
  /\ rep = 0 /\ round = 0
  /\ aggregate_max_loads = 0 /\ aggregate_num_empty_bins = 0
  /\ InitHistory(EmptyVector)

InitGen ==
  /\ InitCommon
  /\ run_pc = "generate"
  /\ num_bins \in 0 .. GenMaxBins
  /\ num_balls \in 0 .. GenMaxBalls
  /\ num_rounds = 0 /\ num_repetitions = 0

\* line 86: num_balls/num_bins is evaluated whatever num_bins is; with
\* num_bins == 0 that is a division by zero, otherwise the function goes on
\* to return its vector.
GenerateOutcome_checked(bins) == "generated"
GenerateOutcome(bins) == IF bins = 0 THEN "div_by_zero" ELSE "generated"

\* auto load_vector = generate_uniform_vector(num_bins, num_balls);
CallGenerate ==
  /\ run_pc = "generate"
  /\ run_pc' = GenerateOutcome(num_bins)
  /\ store' = IF run_pc' = "generated" /\ num_bins # 0
              THEN [store EXCEPT ![ArgAddr] =
                      generate_uniform_vector(num_bins, num_balls)]
              ELSE store
  /\ UNCHANGED <<max_load_, num_empty_bins_, bin_uar_, local_vars, generator>>
  /\ UNCHANGED <<caller_vars, hist_vars>>
  /\ UNCHANGED <<num_bins, num_balls, num_rounds, num_repetitions, rep, round,
                 aggregate_max_loads, aggregate_num_empty_bins>>

\* An unsigned division by zero is undefined: the build may trap (SIGFPE),
\* or go on with some quotient and remainder and hand back the vector of
\* num_bins == 0 entries.
DivisionByZeroOutcomes == {"sigfpe", "returned_after_ub"}

UndefinedBehaviour ==
  /\ run_pc = "div_by_zero"
  /\ run_pc' \in DivisionByZeroOutcomes
  /\ store' = [store EXCEPT ![ArgAddr] = EmptyVector]
  /\ UNCHANGED <<max_load_, num_empty_bins_, bin_uar_, local_vars, generator>>
  /\ UNCHANGED <<caller_vars, hist_vars>>
  /\ UNCHANGED <<num_bins, num_balls, num_rounds, num_repetitions, rep, round,
                 aggregate_max_loads, aggregate_num_empty_bins>>

NextGen ==
  \/ CallGenerate
  \/ UndefinedBehaviour

SpecGen == InitGen /\ [][NextGen]_vars

(***************************************************************************)
(* run_experiments_for_n_and_m, lines 96-112.                              *)
(***************************************************************************)
\* lines 97-99: a default-seeded generator and two zero sums.
InitRun ==
  /\ InitCommon
  /\ run_pc = "rep_loop"
  /\ num_bins \in 1 .. RunMaxBins
  /\ num_balls \in 0 .. RunMaxBalls
  /\ num_rounds \in 0 .. RunMaxRounds
  /\ num_repetitions \in 0 .. RunMaxReps

\* lines 105-106: aggregate += statistic;
AggregateAdd_assign(sum, x) == x
AggregateAdd(sum, x) == sum + x

\* line 97: std::mt19937_64 generator; is declared before the repetition
\* loop, so a repetition goes on with the stream where the last one left it.
RepetitionGenerator_fresh(g) == 0
RepetitionGenerator(g) == g

\* lines 100-102: a repetition begins with a generated vector and a new engine.
RunNewRepetition ==
  /\ run_pc = "rep_loop"
  /\ rep < num_repetitions
  /\ Construct(generate_uniform_vector(num_bins, num_balls))
  /\ generator' = RepetitionGenerator(generator)
  /\ round' = 0
  /\ run_pc' = "round_loop"
  /\ load0' = store'[LoadVectorAddr]
  /\ round_start' = store'[LoadVectorAddr]
  /\ UNCHANGED <<local_vars, caller_vars>>
  /\ UNCHANGED <<num_bins, num_balls, num_rounds, num_repetitions, rep,
                 aggregate_max_loads, aggregate_num_empty_bins>>
  /\ UNCHANGED <<rounds, samples, post_max_sum, post_empty_sum, writes>>

\* line 103: round < num_rounds
RoundLoopContinues_inclusive(r, limit) == r <= limit
RoundLoopContinues(r, limit) == r < limit

\* lines 103-104: rbb.nextRound(generator);
RunCallNextRound ==
  /\ run_pc = "round_loop"
  /\ RoundLoopContinues(round, num_rounds)
  /\ NextRoundEnter
  /\ run_pc' = "in_round"
  /\ UNCHANGED <<num_bins, num_balls, num_rounds, num_repetitions, rep, round,
                 aggregate_max_loads, aggregate_num_empty_bins>>

\* lines 105-106 and ++round, once nextRound has returned.
RunSample ==
  /\ run_pc = "in_round"
  /\ pc = "idle"
  /\ aggregate_max_loads' = AggregateAdd(aggregate_max_loads, getMaxLoad)
  /\ aggregate_num_empty_bins' = AggregateAdd(aggregate_num_empty_bins, getNumEmptyBins)
  /\ round' = round + 1
  /\ run_pc' = "round_loop"
  /\ samples' = samples + 1
  /\ UNCHANGED <<engine_vars, local_vars, generator, caller_vars>>
  /\ UNCHANGED <<num_bins, num_balls, num_rounds, num_repetitions, rep>>
  /\ UNCHANGED <<load0, round_start, rounds, post_max_sum, post_empty_sum, writes>>

\* line 103 (round == num_rounds) and line 100 (++rep): the engine and its
\* vector go out of scope.
RunEndRepetition ==
  /\ run_pc = "round_loop"
  /\ ~RoundLoopContinues(round, num_rounds)
  /\ rep' = rep + 1
  /\ run_pc' = "rep_loop"
  /\ UNCHANGED <<engine_vars, local_vars, generator, caller_vars, hist_vars>>
  /\ UNCHANGED <<num_bins, num_balls, num_rounds, num_repetitions, round,
                 aggregate_max_loads, aggregate_num_empty_bins>>

\* line 100 (rep == num_repetitions) and lines 109-111: the two averages are
\* the sums over num_rounds * num_repetitions.
RunReturn ==
  /\ run_pc = "rep_loop"
  /\ ~(rep < num_repetitions)
  /\ run_pc' = "done"
  /\ UNCHANGED <<engine_vars, local_vars, generator, caller_vars, hist_vars>>
  /\ UNCHANGED <<num_bins, num_balls, num_rounds, num_repetitions, rep, round,
                 aggregate_max_loads, aggregate_num_empty_bins>>

NextRun ==
  \/ RunNewRepetition
  \/ RunCallNextRound
  \/ Phase1Step
  \/ Phase1Done
  \/ Phase2Step
  \/ Phase2Done
  \/ RunSample
  \/ RunEndRepetition
  \/ RunReturn

SpecRun == InitRun /\ [][NextRun]_vars

\* The program is sequential and nothing blocks: whenever a step of the run
\* is possible, one is taken.
SpecRunFair == SpecRun /\ WF_vars(NextRun)


(***************************************************************************)
(* Properties.                                                             *)
(***************************************************************************)
AllZero(v) == \A k \in DOMAIN v : v[k] = 0

\* C1 (conservation): whenever nextRound is not in progress, the entries of
\* the load vector sum to what they summed to at construction.
Conservation ==
  pc = "idle" => Sum(load_vector_) = Sum(load0)

ConservationWitness ==
  /\ pc = "idle" /\ rounds >= 2
  /\ load_vector_ # load0
  /\ CountZero(load0) > 0
  /\ Sum(load_vector_) = Sum(load0)

\* C2 (max-load consistency): after construction and after every completed
\* nextRound, getMaxLoad() is the largest entry of the load vector.
MaxLoadConsistency ==
  pc = "idle" => IsMaxOf(getMaxLoad, load_vector_)

MaxLoadConsistencyWitness ==
  /\ pc = "idle" /\ rounds >= 1
  /\ IsMaxOf(getMaxLoad, load_vector_)
  /\ ~IsMaxOf(getMaxLoad, load0)
  /\ Size(load_vector_) >= 2

\* C3 (empty-bin consistency): after construction and after every completed
\* nextRound, getNumEmptyBins() is the number of zero entries of the load
\* vector, also when one bin was drawn several times in the round.
EmptyBinConsistency ==
  pc = "idle" => getNumEmptyBins = CountZero(load_vector_)

\* After the first round some bin holds two balls more than phase 1 left in
\* it: it was drawn at least twice.
EmptyBinConsistencyWitness ==
  /\ pc = "idle" /\ rounds = 1
  /\ \E b \in DOMAIN load_vector_ :
       load_vector_[b] >= Phase1Decrement(load0[b]) + 2
  /\ getNumEmptyBins = CountZero(load_vector_)
  /\ getNumEmptyBins > 0

\* C4 (generator correctness): generate_uniform_vector(num_bins, num_balls)
\* has num_bins entries that sum to num_balls; exactly the first
\* num_balls mod num_bins of them are floor(num_balls / num_bins) + 1 and
\* the others floor(num_balls / num_bins); generate(4, 10) = [3,3,2,2].
GeneratorCorrectness ==
  run_pc = "generated" =>
    LET v == store[ArgAddr]
    IN /\ DOMAIN v = 0 .. (num_bins - 1)
       /\ Size(v) = num_bins
       /\ Sum(v) = num_balls
       /\ \A k \in DOMAIN v :
            v[k] = (num_balls \div num_bins)
                     + (IF k < num_balls % num_bins THEN 1 ELSE 0)
       /\ (num_bins = 4 /\ num_balls = 10) =>
            (v[0] = 3 /\ v[1] = 3 /\ v[2] = 2 /\ v[3] = 2)

GeneratorCorrectnessWitness ==
  /\ run_pc = "generated"
  /\ num_bins = 4 /\ num_balls = 10
  /\ store[ArgAddr] = [k \in 0 .. 3 |-> IF k < 2 THEN 3 ELSE 2]

\* C5 (non-negativity): in every state, the ones inside nextRound included,
\* no entry of the load vector is below zero.
NonNegativity ==
  \A k \in DOMAIN load_vector_ : load_vector_[k] >= 0

\* Phase 1 has just passed over a bin that was already empty.
NonNegativityWitness ==
  /\ pc = "phase1" /\ i > 0 /\ i < n
  /\ round_start[i - 1] = 0
  /\ load_vector_[i - 1] = 0
  /\ rounds >= 1

\* C6: in every round balls_to_allocate is the number of bins that were
\* non-empty when the round began, phase 1 removes exactly that many balls,
\* and phase 2 draws exactly that many times.
Phase2Drawn == IF pc = "phase1" THEN 0 ELSE j

BallsToAllocateIsNonEmptyCount ==
  /\ pc # "idle" => balls_to_allocate = CountNonZero(round_start)
  /\ ((pc = "phase1" /\ i = n) \/ pc = "phase2") =>
       Sum(round_start) - (Sum(load_vector_) - Phase2Drawn) = balls_to_allocate
  /\ pc = "phase2" => j <= balls_to_allocate
  /\ (pc = "idle" /\ rounds >= 1) => j = balls_to_allocate

\* A later round, begun with some bins empty and some not.
BallsToAllocateWitness ==
  /\ pc = "phase2" /\ rounds >= 1
  /\ balls_to_allocate > 0 /\ balls_to_allocate < n
  /\ j = balls_to_allocate
  /\ round_start # load0

\* C7: the accessors leave the engine's state alone; nextRound leaves the
\* caller's vectors alone (the one passed to the constructor and the one
\* getLoadVector returned); a caller's write to its vectors leaves the
\* engine's state alone.
EngineState == <<load_vector_, max_load_, num_empty_bins_>>

CallerVectors == <<store[ArgAddr], store[GetLoadVectorAddr]>>

AccessorStep == CallGetMaxLoad \/ CallGetNumEmptyBins \/ CallGetLoadVector

NextRoundStep ==
  CallNextRoundFrame \/ Phase1Step \/ Phase1Done \/ Phase2Step \/ Phase2Done

AccessorsDoNotMutate ==
  [][/\ AccessorStep => UNCHANGED EngineState
     /\ NextRoundStep => UNCHANGED CallerVectors
     /\ CallerWrite => UNCHANGED EngineState]_vars

\* The caller read all three accessors, a round then changed the engine's
\* vector, and the caller overwrote an entry of the constructor's argument.
AccessorsDoNotMutateWitness ==
  /\ pc = "idle" /\ rounds = 1 /\ writes = 1
  /\ store["ret"] = load0
  /\ store["ret"] # load_vector_
  /\ store[ArgAddr] # load0
  /\ ret_max > 0 /\ ret_empty > 0

\* C8 (scenario C): an engine built from all-zero bins never allocates a
\* ball, never draws, and keeps its vector and statistics.
EmptySystemNoOp ==
  AllZero(load0) =>
    /\ balls_to_allocate = 0
    /\ generator = 0
    /\ load_vector_ = load0
    /\ pc = "idle" => (max_load_ = 0 /\ num_empty_bins_ = Size(load0))

EmptySystemNoOpWitness ==
  /\ AllZero(load0) /\ Size(load0) >= 2
  /\ pc = "idle" /\ rounds >= 2
  /\ generator = 0
  /\ num_empty_bins_ = Size(load0)

\* C9 (scenario B): an engine built from the single entry m is back at [m]
\* with max_load m after every round, with no empty bin when m > 0 and one
\* when m = 0; when m > 0 the round removes one ball and draws once, bin 0.
SingleBinInvariant ==
  Size(load0) = 1 =>
    LET m == load0[0]
    IN /\ pc = "idle" =>
            /\ load_vector_ = load0
            /\ max_load_ = m
            /\ num_empty_bins_ = (IF m > 0 THEN 0 ELSE 1)
       /\ (m > 0 /\ pc = "phase2") =>
            /\ balls_to_allocate = 1
            /\ BinUarValues = {0}
            /\ load_vector_[0] = m - 1 + j
            /\ j <= 1
       /\ (m > 0 /\ pc = "idle") => generator = rounds

SingleBinInvariantWitness ==
  /\ Size(load0) = 1 /\ load0[0] >= 2
  /\ pc = "idle" /\ rounds >= 2
  /\ load_vector_ = load0
  /\ generator = rounds

\* C10 (aggregation ordering): each completed nextRound is sampled once
\* before the next one begins, nothing else is sampled, and when the run
\* returns the two sums are the sums of the post-round statistics over
\* num_rounds * num_repetitions rounds.
AggregationOrdering ==
  /\ rounds - samples = (IF run_pc = "in_round" /\ pc = "idle" THEN 1 ELSE 0)
  /\ pc # "idle" => samples = rounds
  /\ samples = rounds =>
       /\ aggregate_max_loads = post_max_sum
       /\ aggregate_num_empty_bins = post_empty_sum
  /\ run_pc = "done" =>
       /\ samples = num_rounds * num_repetitions
       /\ rounds = num_rounds * num_repetitions

AggregationOrderingWitness ==
  /\ run_pc = "done"
  /\ num_rounds >= 2 /\ num_repetitions >= 2
  /\ samples = num_rounds * num_repetitions
  /\ aggregate_max_loads = post_max_sum
  /\ aggregate_max_loads > 0
  /\ aggregate_num_empty_bins > 0


\* C11 (as stated): at the start of every repetition the engine and the
\* random stream are in the state a first repetition finds them in.
RepetitionStart == run_pc = "round_loop" /\ round = 0 /\ pc = "idle"

FreshEngine ==
  /\ load_vector_ = generate_uniform_vector(num_bins, num_balls)
  /\ IsMaxOf(max_load_, load_vector_)
  /\ num_empty_bins_ = CountZero(load_vector_)
  /\ BinUarValues = DOMAIN load_vector_

RepetitionsShareNothing ==
  RepetitionStart => (FreshEngine /\ generator = 0)

\* C11 (amended): a repetition begins with an engine built from a newly
\* generated vector whatever the repetitions before it did, and leaves the
\* two sums as they are; the random stream is the one generator of the
\* whole run, which a new repetition does not reset, and which never goes
\* back.
RepetitionsShareOnlySumsAndStream ==
  [][/\ RunNewRepetition =>
          /\ FreshEngine'
          /\ generator' = generator
          /\ UNCHANGED <<aggregate_max_loads, aggregate_num_empty_bins>>
     /\ generator' >= generator]_vars

\* A second repetition begins with a new engine and a stream that the
\* first one has advanced.
RepetitionsShareWitness ==
  /\ RepetitionStart /\ rep >= 1
  /\ FreshEngine
  /\ generator > 0
  /\ aggregate_max_loads > 0


\* C12 (phase-1 result): when phase 1 has finished and nothing has been
\* drawn yet, every entry is max(old entry - 1, 0), and max_load_ and
\* num_empty_bins_ are the maximum and the zero count of that vector; from
\* [0,2,5] this is [0,1,4], max_load 4, num_empty_bins 1, and 2 balls to
\* allocate.
Phase1Finished == (pc = "phase1" /\ i = n) \/ (pc = "phase2" /\ j = 0)

DecrementedOrZero(x) == IF x - 1 > 0 THEN x - 1 ELSE 0

Phase1Result ==
  Phase1Finished =>
    /\ DOMAIN load_vector_ = DOMAIN round_start
    /\ \A k \in DOMAIN load_vector_ :
         load_vector_[k] = DecrementedOrZero(round_start[k])
    /\ IsMaxOf(max_load_, load_vector_)
    /\ num_empty_bins_ = CountZero(load_vector_)
    /\ round_start = ScenarioD =>
         /\ load_vector_[0] = 0 /\ load_vector_[1] = 1 /\ load_vector_[2] = 4
         /\ max_load_ = 4
         /\ num_empty_bins_ = 1
         /\ balls_to_allocate = 2

Phase1ResultWitness ==
  /\ pc = "phase2" /\ j = 0
  /\ round_start = ScenarioD
  /\ load_vector_ = [k \in 0 .. 2 |-> IF k = 0 THEN 0 ELSE IF k = 1 THEN 1 ELSE 4]
  /\ max_load_ = 4 /\ num_empty_bins_ = 1 /\ balls_to_allocate = 2


\* C13 (phase-2 step): after each single phase-2 increment max_load_ is the
\* maximum and num_empty_bins_ the zero count of the vector as it then is;
\* over the increment max_load_ does not fall and rises by at most 1, and
\* num_empty_bins_ falls by exactly 1 if the drawn bin was empty and stays
\* as it is otherwise.
Phase2StepInvariant ==
  [][Phase2Step =>
       /\ IsMaxOf(max_load_', load_vector_')
       /\ num_empty_bins_' = CountZero(load_vector_')
       /\ max_load_' >= max_load_
       /\ max_load_' <= max_load_ + 1
       /\ num_empty_bins_' <= num_empty_bins_
       /\ \E b \in DOMAIN load_vector_ :
            /\ load_vector_' = [load_vector_ EXCEPT ![b] = @ + 1]
            /\ num_empty_bins_' =
                 num_empty_bins_ - (IF load_vector_[b] = 0 THEN 1 ELSE 0)]_vars

\* Inside phase 2 of a later round: a bin that began the round empty has been
\* filled, another was drawn without being empty, and the maximum has
\* risen above what phase 1 left.
Phase2StepWitness ==
  /\ pc = "phase2" /\ j >= 2 /\ rounds >= 1
  /\ \E b \in DOMAIN load_vector_ : round_start[b] = 0 /\ load_vector_[b] = 1
  /\ \E b \in DOMAIN load_vector_ :
       round_start[b] > 1 /\ load_vector_[b] > round_start[b] - 1
  /\ \A k \in DOMAIN load_vector_ : round_start[k] - 1 < max_load_
  /\ IsMaxOf(max_load_, load_vector_)
  /\ num_empty_bins_ = CountZero(load_vector_)


\* C14 (phase-1 monotonicity): during phase 1 no entry is above what it was
\* when the round began; when phase 1 has finished there are at least as
\* many empty bins as before it, and the maximum is the maximum before it
\* minus 1, or 0 when that was 0.
MaxOf(v) == CHOOSE x \in {v[k] : k \in DOMAIN v} \cup {0} : IsMaxOf(x, v)

Phase1Monotone ==
  /\ pc = "phase1" =>
       \A k \in DOMAIN load_vector_ : load_vector_[k] <= round_start[k]
  /\ Phase1Finished =>
       /\ \A k \in DOMAIN load_vector_ : load_vector_[k] <= round_start[k]
       /\ CountZero(load_vector_) >= CountZero(round_start)
       /\ num_empty_bins_ >= CountZero(round_start)
       /\ MaxOf(load_vector_) =
            (IF MaxOf(round_start) = 0 THEN 0 ELSE MaxOf(round_start) - 1)
       /\ max_load_ =
            (IF MaxOf(round_start) = 0 THEN 0 ELSE MaxOf(round_start) - 1)

\* Phase 1 of a later round has emptied a bin and lowered a maximum of at
\* least 2.
Phase1MonotoneWitness ==
  /\ Phase1Finished /\ rounds >= 1
  /\ CountZero(load_vector_) > CountZero(round_start)
  /\ MaxOf(round_start) >= 2
  /\ max_load_ = MaxOf(round_start) - 1


\* C15 (no failure for well-formed input): in every state of an engine
\* built from n >= 1 bins the vector still has its n entries, every bin
\* the distribution can return is one of them, and the counts stay in
\* range: 0 <= balls_to_allocate <= n and 0 <= num_empty_bins_ <= n.
NoFailure ==
  /\ DOMAIN load_vector_ = DOMAIN load0
  /\ Size(load_vector_) = Size(load0)
  /\ Size(load_vector_) >= 1
  /\ BinUarValues = 0 .. (Size(load_vector_) - 1)
  /\ BinUarValues \subseteq DOMAIN load_vector_
  /\ pc # "idle" => n = Size(load_vector_)
  /\ 0 <= balls_to_allocate /\ balls_to_allocate <= Size(load_vector_)
  /\ 0 <= num_empty_bins_ /\ num_empty_bins_ <= Size(load_vector_)
  /\ pc = "idle" => BallsToAllocate(Size(load_vector_), num_empty_bins_) >= 0

\* A later round that began with an empty bin has drawn its last ball and
\* counted num_empty_bins_ down to 0.
NoFailureWitness ==
  /\ pc = "phase2" /\ j = balls_to_allocate /\ rounds >= 1
  /\ CountZero(round_start) > 0
  /\ num_empty_bins_ = 0
  /\ Size(load_vector_) = MaxBins


\* C16 (termination): every nextRound returns, after n phase-1 steps and
\* balls_to_allocate <= n draws; run_experiments_for_n_and_m returns, after
\* num_rounds calls of nextRound in each repetition and
\* num_repetitions * num_rounds calls in all.
RoundCounts ==
  /\ pc = "phase1" => i <= n
  /\ pc = "phase2" => (i = n /\ j <= balls_to_allocate /\ balls_to_allocate <= n)
  /\ (pc = "idle" /\ rounds >= 1) => (i = n /\ j = balls_to_allocate)
  /\ run_pc = "rep_loop" => rounds = rep * num_rounds
  /\ run_pc = "round_loop" => (rounds = rep * num_rounds + round /\ round <= num_rounds)
  /\ run_pc = "done" => rounds = num_repetitions * num_rounds

Termination ==
  /\ []RoundCounts
  /\ (pc # "idle") ~> (pc = "idle")
  /\ <>(run_pc = "done")

TerminationWitness ==
  /\ run_pc = "done"
  /\ num_rounds >= 2 /\ num_repetitions >= 2
  /\ rounds = num_repetitions * num_rounds
  /\ pc = "idle" /\ i = n /\ j = balls_to_allocate /\ j >= 1


\* C17 (zero bins unguarded): a call of generate_uniform_vector with
\* num_bins = 0 goes straight to the division by zero, never to a normal
\* return; a call with num_bins >= 1 returns normally.
ZeroBinsUnguarded ==
  [][/\ (run_pc = "generate" /\ num_bins = 0) => run_pc' = "div_by_zero"
     /\ (run_pc = "generate" /\ num_bins >= 1) => run_pc' = "generated"
     /\ num_bins = 0 => run_pc' # "generated"]_vars

ZeroBinsUnguardedWitness ==
  /\ num_bins = 0 /\ num_balls > 0
  /\ run_pc = "div_by_zero"


\* C18 (determinism under an injected source): after every round the load
\* vector, max_load_ and num_empty_bins_ are what the initial vector and the
\* bins drawn so far determine, so two engines with the same initial vector
\* and the same draws are in the same state.
AfterPhase1(v) == [k \in DOMAIN v |-> DecrementedOrZero(v[k])]

Landed(v, ds) ==
  [k \in DOMAIN v |-> v[k] + Cardinality({p \in DOMAIN ds : ds[p] = k})]

\* The vector after whole rounds that consume the draws ds, each round
\* taking as many draws as it began with non-empty bins; the empty vector
\* if ds is not made of whole rounds.
RECURSIVE Replay(_, _)
Replay(v, ds) ==
  IF ds = <<>> THEN v
  ELSE LET k == CountNonZero(v)
       IN IF k = 0 \/ Len(ds) < k THEN EmptyVector
          ELSE Replay(Landed(AfterPhase1(v), SubSeq(ds, 1, k)),
                      SubSeq(ds, k + 1, Len(ds)))

Determinism ==
  pc = "idle" =>
    LET v == Replay(load0, generator)
    IN /\ load_vector_ = v
       /\ max_load_ = MaxOf(v)
       /\ num_empty_bins_ = CountZero(v)

\* Two rounds have been replayed, with draws that are not all the same bin.
DeterminismWitness ==
  /\ pc = "idle" /\ rounds = 2
  /\ Len(generator) >= 3
  /\ \E p, q \in DOMAIN generator : generator[p] # generator[q]
  /\ load_vector_ = Replay(load0, generator)
  /\ load_vector_ # load0


\* C19 (bounds on the statistics): with m >= 1 balls in n bins, after
\* construction and after every round some bin is non-empty
\* (num_empty_bins <= n - 1) and ceil(m / n) <= max_load <= m.
StatisticsBounds ==
  (pc = "idle" /\ Sum(load0) >= 1) =>
    LET m == Sum(load0)
        bins == Size(load0)
    IN /\ getNumEmptyBins <= bins - 1
       /\ (m + bins - 1) \div bins <= getMaxLoad
       /\ getMaxLoad <= m

\* After a round all the balls, at least two, are in one of several bins.
StatisticsBoundsWitness ==
  /\ pc = "idle" /\ rounds >= 1
  /\ Size(load0) >= 2 /\ Sum(load0) >= 2
  /\ getMaxLoad = Sum(load0)
  /\ getNumEmptyBins = Size(load0) - 1
  /\ load_vector_ # load0

\* C20 (as stated): when a round is complete, max_load is at least the
\* max_load before the round minus 1, and at most that plus
\* balls_to_allocate.
RoundComplete == pc = "phase2" /\ ~(j < balls_to_allocate)

MaxLoadChangeAsStated ==
  RoundComplete =>
    /\ max_load_ >= MaxOf(round_start) - 1
    /\ max_load_ <= MaxOf(round_start) - 1 + balls_to_allocate

\* C20 (amended): the same with max(max_load before - 1, 0) in the place of
\* max_load before - 1: from all bins empty the maximum stays 0.
MaxLoadChange ==
  RoundComplete =>
    /\ max_load_ >= DecrementedOrZero(MaxOf(round_start))
    /\ max_load_ <= DecrementedOrZero(MaxOf(round_start)) + balls_to_allocate

\* A later round in which the maximum has fallen by one although balls
\* were allocated.
MaxLoadChangeWitness ==
  /\ RoundComplete /\ rounds >= 1
  /\ balls_to_allocate >= 2
  /\ MaxOf(round_start) >= 2
  /\ max_load_ = MaxOf(round_start) - 1

====
